---- MODULE Spec2Model ----
(***************************************************************************)
(* The three job-board ETL scripts (Adzuna.py, Jooble.py, RemoteOK.py) and *)
(* the shared db_utils.py, as one state machine: a sequence of runs, each  *)
(* run being one provider's main() stepping through its calls, against a   *)
(* database that holds one table per provider.                             *)
(***************************************************************************)
EXTENDS Integers, Sequences, FiniteSets, TLC

(***************************************************************************)
(* Bounds of the model.                                                    *)
(***************************************************************************)
\* Number of runs of main() in one behaviour.
MaxRuns == 2
\* Number of listings in one provider response.
MaxBatch == 2

(***************************************************************************)
(* Values.  JSON / pandas / SQL cells are tagged tuples so that values of  *)
(* different Python types can be compared.                                 *)
(***************************************************************************)
Null == <<"null">>
NaN == <<"nan">>
NaT == <<"nat">>
Absent == <<"absent">>
Str(s) == <<"str", s>>
Num(n) == <<"int", n>>
\* A float64 cell whose value is the integer n.
Flt(n) == <<"float", n>>
Dict(v) == <<"dict", v>>
List(l) == <<"list", l>>
Ts(s) == <<"ts", s>>
\* A string given character by character: the salaries, which the code parses.
Text(chars) == <<"text", chars>>

IsStr(v) == v[1] = "str"
IsInt(v) == v[1] = "int"
IsFlt(v) == v[1] = "float"
IsDict(v) == v[1] = "dict"
IsText(v) == v[1] = "text"

Digits == <<"0", "1", "2", "3", "4", "5", "6", "7", "8", "9">>
IsDigit(c) == \E d \in 1..10 : Digits[d] = c
DigitVal(c) == (CHOOSE d \in 1..10 : Digits[d] = c) - 1

RECURSIVE DigitsToInt(_)
DigitsToInt(ds) ==
    IF Len(ds) = 0 THEN 0
    ELSE 10 * DigitsToInt(SubSeq(ds, 1, Len(ds) - 1)) + DigitVal(ds[Len(ds)])

RECURSIVE NatToChars(_)
NatToChars(n) ==
    IF n < 10 THEN <<Digits[n + 1]>>
    ELSE NatToChars(n \div 10) \o <<Digits[(n % 10) + 1]>>

\* str() of an integer
IntToChars(n) == IF n < 0 THEN <<"-">> \o NatToChars(0 - n) ELSE NatToChars(n)

Providers == {"adzuna", "jooble", "remoteok"}

\* The dtype inference pandas runs on the values of a new column (in the
\* DataFrame constructor and on the result of Series.apply): a column that
\* holds nothing but None, NaN and numbers, and is neither all None nor all
\* integers, becomes float64, its None cells NaN and its integers floats;
\* every other column keeps its values.
Infer(col) ==
    IF /\ \A i \in DOMAIN col :
             col[i] \in {Null, NaN} \/ IsInt(col[i]) \/ IsFlt(col[i])
       /\ \E i \in DOMAIN col : col[i] # Null
       /\ \E i \in DOMAIN col : ~IsInt(col[i])
    THEN [i \in DOMAIN col |->
             IF IsInt(col[i]) \/ IsFlt(col[i]) THEN Flt(col[i][2]) ELSE NaN]
    ELSE col

\* pandas.DataFrame(list of dicts), one column: a key that a record lacks is
\* a NaN cell, and the column's dtype is inferred.
Column(jobs, f) ==
    Infer([i \in 1..Len(jobs) |-> IF jobs[i][f] = Absent THEN NaN ELSE jobs[i][f]])

\* The cell of record i in column f of pandas.DataFrame(jobs).
Cell(jobs, i, f) == Column(jobs, f)[i]

\* pandas.DataFrame(list of dicts): a column exists iff some record has the key.
HasColumn(jobs, f) == \E i \in 1..Len(jobs) : jobs[i][f] # Absent

\* pd.notnull: None, NaN and NaT are null.
NotNull(v) == v # Null /\ v # NaN /\ v # NaT

\* A float64 column: all its cells are NaN or floats.
IsFloatColumn(col) == \A i \in DOMAIN col : col[i] = NaN \/ IsFlt(col[i])

\* df.where(pd.notnull(df), None), cell i of one column: the None put in
\* place of a null cell is stored as the column's own missing value, NaT in
\* a datetime64 column and NaN in a float64 column; in an object column it
\* stays None.
WhereNotNull(col, i) ==
    IF NotNull(col[i]) THEN col[i]
    ELSE IF col[i] = NaT THEN NaT
    ELSE IF IsFloatColumn(col) THEN NaN
    ELSE Null

\* Python's str() of a cell, as an f-string and astype(str) render it.
PyStr(v) ==
    IF IsStr(v) THEN v[2]
    ELSE IF IsInt(v) THEN ToString(v[2])
    ELSE IF IsFlt(v) THEN ToString(v[2]) \o ".0"
    ELSE IF v = NaN THEN "nan"
    ELSE "None"

\* The timestamps pandas can parse; everything else is coerced to NaT.
ValidDates == {"2024-05-01", "2024-06-15"}

\* pd.to_datetime(col, errors="coerce") on one cell: the column becomes
\* datetime64, what does not parse is NaT.  (The dates of the listings are
\* strings, null or missing.)
ToDatetime(v) == IF IsStr(v) /\ v[2] \in ValidDates THEN Ts(v[2]) ELSE NaT

\* An integer literal: an optional sign and one or more digits.
IsIntLiteral(s) ==
    LET body == IF Len(s) > 0 /\ s[1] \in {"-", "+"} THEN Tail(s) ELSE s
    IN Len(body) > 0 /\ \A k \in 1..Len(body) : IsDigit(body[k])

\* int() of an integer literal
LiteralValue(s) ==
    IF s[1] = "-" THEN 0 - DigitsToInt(Tail(s))
    ELSE IF s[1] = "+" THEN DigitsToInt(Tail(s))
    ELSE DigitsToInt(s)

\* pd.to_numeric(col, errors="coerce") on one cell: numbers pass, a string
\* that spells a number is parsed, the rest is NaN.  (The numeric strings of
\* the listings are integer literals.)
ToNumeric(v) ==
    IF IsInt(v) \/ IsFlt(v) THEN v
    ELSE IF IsText(v) /\ IsIntLiteral(v[2]) THEN Num(LiteralValue(v[2]))
    ELSE NaN

\* .fillna(0) followed by the integer cast: the plain integer of the cell.
FillNa0(v) == IF IsInt(v) \/ IsFlt(v) THEN v[2] ELSE 0

\* hashlib.sha256(s.encode()).hexdigest(), taken as collision free: a digest
\* is identified by the string it was computed from.
Sha256Hex(s) == "sha256:" \o s

\* f"{row['company']}-{row['position']}-{row['location']}"
KeyString(row) ==
    PyStr(row.company) \o "-" \o PyStr(row.position) \o "-" \o PyStr(row.location)

RECURSIVE JoinStr(_, _)
\* sep.join(list of str)
JoinStr(l, sep) ==
    IF Len(l) = 0 THEN ""
    ELSE IF Len(l) = 1 THEN l[1]
    ELSE l[1] \o sep \o JoinStr(Tail(l), sep)

\* The exception a step raised, or "none".
NoExc == "none"

(***************************************************************************)
(* Data frames.  kind "none" is Python's None (RemoteOK only), "empty" is  *)
(* pd.DataFrame() with no column and no row, "frame" has the columns of    *)
(* its rows.                                                               *)
(***************************************************************************)
NoneDF == [kind |-> "none", rows |-> <<>>]
EmptyDF == [kind |-> "empty", rows |-> <<>>]
Frame(rows) == [kind |-> "frame", rows |-> rows]

\* df.empty
IsEmptyDF(d) == Len(d.rows) = 0

\* What a fetcher hands back: the frame it returns, or the exception it raises.
Returned(d) == [exc |-> NoExc, df |-> d]
Raised(e) == [exc |-> e, df |-> NoneDF]

\* "for col in required_cols: if col not in df.columns: df[col] = None"
ColOrNone(jobs, i, f) == IF HasColumn(jobs, f) THEN Cell(jobs, i, f) ELSE Null

(***************************************************************************)
(* Adzuna: fetch_adzuna_data, after response.json().                       *)
(***************************************************************************)
\* df["company"].apply(lambda x: x.get("display_name") if isinstance(x, dict) else x)
\* (the same lambda reads "label" of the category)
DictField(x) == IF IsDict(x) THEN (IF x[2] = Absent THEN Null ELSE x[2]) ELSE x

\* df["location"].apply(lambda x: ", ".join(x.get("area", [])) if isinstance(x, dict) else x)
AreaJoin(x) ==
    IF IsDict(x) THEN Str(JoinStr(IF x[2] = Absent THEN <<>> ELSE x[2], ", ")) ELSE x

\* .clip(lower=0, upper=9223372036854775807); the upper bound lies above every
\* integer the model's inputs reach, so only the lower bound can act.
AdzunaClip(n) == IF n < 0 THEN 0 ELSE n

\* The four statements of the salary loop on one cell: to_numeric, fillna(0),
\* round(0).astype("Int64"), clip.
AdzunaSalary(v) == AdzunaClip(FillNa0(ToNumeric(v)))

\* df["company"] = df["company"].apply(...): the new column, its dtype inferred
CompanyColumn(jobs) ==
    Infer([i \in 1..Len(jobs) |-> DictField(Cell(jobs, i, "company"))])

\* df["location"] = df["location"].apply(...)
LocationColumn(jobs) ==
    Infer([i \in 1..Len(jobs) |-> AreaJoin(Cell(jobs, i, "location"))])

\* df["category"] = df["category"].apply(...)
CategoryColumn(jobs) ==
    Infer([i \in 1..Len(jobs) |-> DictField(Cell(jobs, i, "category"))])

\* Row i of the frame fetch_adzuna_data returns.
AdzunaRow(jobs, i) ==
    [api_id |-> ColOrNone(jobs, i, "id"),
     date_posted |-> ColOrNone(jobs, i, "created"),
     company |-> CompanyColumn(jobs)[i],
     position |-> ColOrNone(jobs, i, "title"),
     location |-> LocationColumn(jobs)[i],
     category |-> CategoryColumn(jobs)[i],
     salary_min |-> AdzunaSalary(ColOrNone(jobs, i, "salary_min")),
     salary_max |-> AdzunaSalary(ColOrNone(jobs, i, "salary_max")),
     redirect_url |-> ColOrNone(jobs, i, "redirect_url")]

\* The try block of fetch_adzuna_data from "jobs = data.get(...)" on: a column
\* read of df["company"], df["location"] or df["category"] raises KeyError when
\* no record of the response has that key.
AdzunaNormalize(jobs) ==
    IF Len(jobs) = 0 THEN Returned(EmptyDF)
    ELSE IF ~HasColumn(jobs, "company") \/ ~HasColumn(jobs, "location")
            \/ ~HasColumn(jobs, "category")
    THEN Raised("KeyError")
    ELSE Returned(Frame([i \in 1..Len(jobs) |-> AdzunaRow(jobs, i)]))

\* fetch_adzuna_data: a RequestException (connection error, timeout, HTTP
\* status) is caught and an empty frame returned.
FetchAdzunaData(resp) ==
    IF resp.kind # "ok" THEN Returned(EmptyDF) ELSE AdzunaNormalize(resp.jobs)

(***************************************************************************)
(* Jooble: fetch_jooble_data, after response.json().  The free-text salary *)
(* is a sequence of characters.                                            *)
(***************************************************************************)
\* .astype(str) on one cell of the salary column
AsChars(v) ==
    IF IsText(v) THEN v[2]
    ELSE IF IsInt(v) THEN IntToChars(v[2])
    ELSE IF IsFlt(v) THEN IntToChars(v[2]) \o <<".", "0">>
    ELSE IF v = NaN THEN <<"n", "a", "n">>
    ELSE <<"N", "o", "n", "e">>

RECURSIVE RunEnd(_, _)
\* The last index of the greedy run [\d,.]* that starts after index i.
RunEnd(s, i) ==
    IF i < Len(s) /\ (IsDigit(s[i + 1]) \/ s[i + 1] = "," \/ s[i + 1] = ".")
    THEN RunEnd(s, i + 1)
    ELSE i

\* .str.extract(r'(\d[\d,.]*)'): the first match, or no match (the empty
\* sequence stands for the NaN that pandas yields).
Extract(s) ==
    IF \E i \in 1..Len(s) : IsDigit(s[i])
    THEN LET i == CHOOSE k \in 1..Len(s) :
                      IsDigit(s[k]) /\ \A m \in 1..(k - 1) : ~IsDigit(s[m])
         IN SubSeq(s, i, RunEnd(s, i))
    ELSE <<>>

IsNumChar(c) == IsDigit(c) \/ c = "."

\* .replace(r'[^\d.]', '', regex=True): drops the commas of the token
StripNonNumeric(tok) == SelectSeq(tok, IsNumChar)

IsDot(c) == c = "."

\* The integer part of a token with at most one dot: float(tok) then int().
IntPart(tok) ==
    LET dots == {k \in 1..Len(tok) : tok[k] = "."}
    IN IF dots = {} THEN DigitsToInt(tok)
       ELSE DigitsToInt(SubSeq(tok, 1, (CHOOSE k \in dots : TRUE) - 1))

\* The whole chain on one cell: astype(str), extract, replace, astype(float),
\* fillna(0), astype(int).  float() raises ValueError on a token with two dots.
JoobleSalary(v) ==
    LET tok == StripNonNumeric(Extract(AsChars(v)))
    IN IF Len(tok) = 0 THEN [exc |-> NoExc, val |-> 0]
       ELSE IF Len(SelectSeq(tok, IsDot)) > 1 THEN [exc |-> "ValueError", val |-> 0]
       ELSE [exc |-> NoExc, val |-> IntPart(tok)]

\* Row i of the frame fetch_jooble_data returns.
JoobleRow(jobs, i) ==
    [api_id |-> ColOrNone(jobs, i, "id"),
     date_posted |-> ColOrNone(jobs, i, "updated"),
     company |-> ColOrNone(jobs, i, "company"),
     position |-> ColOrNone(jobs, i, "title"),
     location |-> ColOrNone(jobs, i, "location"),
     tags |-> ColOrNone(jobs, i, "snippet"),
     salary_min |-> JoobleSalary(Cell(jobs, i, "salary")).val,
     salary_max |-> JoobleSalary(Cell(jobs, i, "salary")).val,
     url |-> ColOrNone(jobs, i, "link")]

\* The try block of fetch_jooble_data from "jobs = data.get(...)" on:
\* df['salary_min'] raises KeyError when no record has a "salary" key, and the
\* float cast raises ValueError for the whole column on one malformed token.
JoobleNormalize(jobs) ==
    IF Len(jobs) = 0 THEN Returned(EmptyDF)
    ELSE IF ~HasColumn(jobs, "salary") THEN Raised("KeyError")
    ELSE IF \E i \in 1..Len(jobs) : JoobleSalary(Cell(jobs, i, "salary")).exc # NoExc
    THEN Raised("ValueError")
    ELSE Returned(Frame([i \in 1..Len(jobs) |-> JoobleRow(jobs, i)]))

\* fetch_jooble_data: a RequestException is caught and an empty frame returned.
FetchJoobleData(resp) ==
    IF resp.kind # "ok" THEN Returned(EmptyDF) ELSE JoobleNormalize(resp.jobs)

(***************************************************************************)
(* RemoteOK: fetch_remoteok_data, after response.json().                   *)
(***************************************************************************)
\* job.get(f): None for a missing key
Get(job, f) == IF job[f] = Absent THEN Null ELSE job[f]

\* Python truthiness of a JSON scalar
Truthy(v) ==
    IF IsInt(v) THEN v[2] # 0
    ELSE IF IsStr(v) THEN v[2] # ""
    ELSE IF IsText(v) THEN Len(v[2]) > 0
    ELSE v # Null

\* job.get('salary_min') if job.get('salary_min') else None
SalaryOrNone(job, f) == IF Truthy(Get(job, f)) THEN Get(job, f) ELSE Null

\* pd.to_numeric(col, errors='coerce').fillna(0).astype(int) on one cell
RemoteOKSalary(v) == FillNa0(ToNumeric(v))

\* ', '.join(job.get('tags', [])): TypeError when the tags are null
TagsJoin(job) ==
    IF job.tags = Absent THEN [exc |-> NoExc, val |-> Str("")]
    ELSE IF job.tags = Null THEN [exc |-> "TypeError", val |-> Null]
    ELSE [exc |-> NoExc, val |-> Str(JoinStr(job.tags[2], ", "))]

\* One value of a job_info dict: the key of the frame and the listing's
\* field it is read from.
JobInfo(job, f) ==
    IF f = "date_posted" THEN Get(job, "date")
    ELSE IF f = "tags" THEN TagsJoin(job).val
    ELSE IF f \in {"salary_min", "salary_max"} THEN SalaryOrNone(job, f)
    ELSE Get(job, f)

\* pd.DataFrame(jobs_data), one column: every record has every key.
RemoteOKColumn(jobs, f) == Infer([i \in 1..Len(jobs) |-> JobInfo(jobs[i], f)])

\* Column f after the casts of one column each: to_datetime on date_posted,
\* astype(str) on id; the salaries are cast in RemoteOKRow.
RemoteOKCast(jobs, f) ==
    [i \in 1..Len(jobs) |->
        IF f = "date_posted" THEN ToDatetime(RemoteOKColumn(jobs, f)[i])
        ELSE IF f = "id" THEN Str(PyStr(RemoteOKColumn(jobs, f)[i]))
        ELSE RemoteOKColumn(jobs, f)[i]]

\* Row i of the frame fetch_remoteok_data returns; the last statement is
\* df.where(pd.notnull(df), None).
RemoteOKRow(jobs, i) ==
    [id |-> WhereNotNull(RemoteOKCast(jobs, "id"), i),
     date_posted |-> WhereNotNull(RemoteOKCast(jobs, "date_posted"), i),
     company |-> WhereNotNull(RemoteOKCast(jobs, "company"), i),
     position |-> WhereNotNull(RemoteOKCast(jobs, "position"), i),
     location |-> WhereNotNull(RemoteOKCast(jobs, "location"), i),
     tags |-> WhereNotNull(RemoteOKCast(jobs, "tags"), i),
     salary_min |-> RemoteOKSalary(RemoteOKColumn(jobs, "salary_min")[i]),
     salary_max |-> RemoteOKSalary(RemoteOKColumn(jobs, "salary_max")[i]),
     url |-> WhereNotNull(RemoteOKCast(jobs, "url"), i)]

\* fetch_remoteok_data: data is the JSON list, whose first element is
\* metadata; fewer than two elements is "unexpected data format" (None).
\* A RequestException is caught and None returned.
FetchRemoteokData(resp) ==
    IF resp.kind # "ok" THEN Returned(NoneDF)
    ELSE IF Len(resp.jobs) + 1 < 2 THEN Returned(NoneDF)
    ELSE IF \E i \in 1..Len(resp.jobs) : TagsJoin(resp.jobs[i]).exc # NoExc
    THEN Raised("TypeError")
    ELSE Returned(Frame([i \in 1..Len(resp.jobs) |-> RemoteOKRow(resp.jobs, i)]))

(***************************************************************************)
(* The raw listings the providers may answer with.                         *)
(***************************************************************************)
AdzunaJobs ==
    {[id |-> Str("a1"), created |-> Str("2024-05-01"), title |-> Str("Engineer"),
      company |-> Dict(Str("Acme")), location |-> Dict(<<"India", "Pune">>),
      category |-> Dict(Str("IT Jobs")), salary_min |-> Num(50000),
      salary_max |-> Text(<<"7", "0", "0", "0", "0">>), redirect_url |-> Str("http://adzuna/1")],
     [id |-> Str("a2"), created |-> Str("not a date"), title |-> Str("Engineer"),
      company |-> Dict(Str("Acme")), location |-> Dict(<<"India", "Pune">>),
      category |-> Null, salary_min |-> Num(-5),
      salary_max |-> Text(<<"c", "o", "m", "p", "e", "t", "i", "t", "i", "v", "e">>),
      redirect_url |-> Str("http://adzuna/2")],
     [id |-> Str("a3"), created |-> Absent, title |-> Str("Analyst"),
      company |-> Absent, location |-> Null,
      category |-> Absent, salary_min |-> Null,
      salary_max |-> Absent, redirect_url |-> Absent]}

JoobleJobs ==
    {[id |-> Str("j1"), updated |-> Str("2024-05-01"), title |-> Str("Engineer"),
      company |-> Str("Acme"), location |-> Str("Pune"), snippet |-> Str("python"),
      salary |-> Text(<<"$", "5", "0", ",", "0", "0", "0", " ", "-", " ",
                        "$", "7", "0", ",", "0", "0", "0">>),
      link |-> Str("http://jooble/1")],
     [id |-> Str("j2"), updated |-> Str("2024-06-15"), title |-> Str("Engineer"),
      company |-> Str("Acme"), location |-> Str("Pune"), snippet |-> Absent,
      salary |-> Text(<<>>), link |-> Str("http://jooble/2")],
     [id |-> Str("j3"), updated |-> Null, title |-> Str("Analyst"),
      company |-> Null, location |-> Absent, snippet |-> Null,
      salary |-> Absent, link |-> Absent],
     [id |-> Str("j4"), updated |-> Str("2024-06-15"), title |-> Str("Analyst"),
      company |-> Str("Acme"), location |-> Str("Hanoi"), snippet |-> Str("sql"),
      salary |-> Text(<<"1", "0", ".", "0", "0", "0", ".", "0", "0", "0", " ",
                        "V", "N", "D">>),
      link |-> Str("http://jooble/4")]}

RemoteOKJobs ==
    {[id |-> Str("101"), date |-> Str("2024-05-01"), company |-> Str("Acme"),
      position |-> Str("Engineer"), location |-> Str("Remote"),
      tags |-> List(<<"python", "sql">>), salary_min |-> Null,
      salary_max |-> Text(<<"9", "0", "0", "0", "0">>), url |-> Str("http://remoteok/101")],
     [id |-> Str("101"), date |-> Str("2024-06-15"), company |-> Str("Acme"),
      position |-> Str("Senior Engineer"), location |-> Absent,
      tags |-> Absent, salary_min |-> Num(60000),
      salary_max |-> Text(<<"n", "/", "a">>), url |-> Str("http://remoteok/101")],
     [id |-> Str("102"), date |-> Str("last week"), company |-> Str("Acme"),
      position |-> Str("Engineer"), location |-> Str("Remote"),
      tags |-> List(<<"go">>), salary_min |-> Num(-5),
      salary_max |-> Num(0), url |-> Str("http://remoteok/102")],
     [id |-> Str("103"), date |-> Str("2024-06-15"), company |-> Absent,
      position |-> Str("Analyst"), location |-> Null,
      tags |-> Null, salary_min |-> Absent,
      salary_max |-> Absent, url |-> Absent]}

RawJobs(p) ==
    IF p = "adzuna" THEN AdzunaJobs
    ELSE IF p = "jooble" THEN JoobleJobs
    ELSE RemoteOKJobs

\* The answers to one request: a connection error, a timeout, a non-success
\* HTTP status, or a JSON body with up to MaxBatch listings.
Responses(p) ==
    {[kind |-> e, jobs |-> <<>>] : e \in {"connection_error", "timeout", "http_error"}}
    \cup {[kind |-> "ok", jobs |-> b] : b \in UNION {[1..n -> RawJobs(p)] : n \in 0..MaxBatch}}

\* What the provider answered, as the claims speak of it.
AnswerOf(r) ==
    IF r.kind # "ok" THEN "error"
    ELSE IF Len(r.jobs) = 0 THEN "empty"
    ELSE "listings"

(***************************************************************************)
(* The database: per provider a table that may not exist yet, with its     *)
(* rows in insertion order.                                                *)
(***************************************************************************)
NoTable == [exists |-> FALSE, rows |-> <<>>]

\* ON target.<key> = source.<key>: the primary-key column of each table
KeyCol(p) == IF p = "remoteok" THEN "id" ELSE "unique_job_id"

\* The columns of WHEN MATCHED THEN UPDATE SET
UpdateCols(p) ==
    IF p = "adzuna"
    THEN {"api_id", "date_posted", "company", "position", "location", "category",
          "salary_min", "salary_max", "redirect_url"}
    ELSE IF p = "jooble"
    THEN {"api_id", "date_posted", "company", "position", "location", "tags",
          "salary_min", "salary_max", "url"}
    ELSE {"date_posted", "company", "position", "location", "tags",
          "salary_min", "salary_max", "url"}

\* A creation that drops the table and makes it anew on every load.
CreateTableAnew(t) == [exists |-> TRUE, rows |-> <<>>]

\* IF OBJECT_ID(...) IS NULL BEGIN CREATE TABLE ... END
CreateTableIfAbsent(t) == IF t.exists THEN t ELSE [exists |-> TRUE, rows |-> <<>>]

\* A MERGE without its WHEN MATCHED clause: a matched row is left as it is.
MergeRowInsertOnly(rows, src, p) ==
    IF \E i \in 1..Len(rows) : rows[i][KeyCol(p)] = src[KeyCol(p)]
    THEN rows
    ELSE Append(rows, src)

\* A plain INSERT in place of the MERGE: every row is added.
MergeRowAlwaysInsert(rows, src, p) == Append(rows, src)

\* A MERGE whose update is not confined to the matched row: once the key is
\* in the table, every row takes the source's values.
MergeRowUpdateAll(rows, src, p) ==
    IF \E i \in 1..Len(rows) : rows[i][KeyCol(p)] = src[KeyCol(p)]
    THEN [i \in 1..Len(rows) |->
             [c \in DOMAIN rows[i] |->
                 IF c \in UpdateCols(p) THEN src[c] ELSE rows[i][c]]]
    ELSE Append(rows, src)

\* One execution of the MERGE statement, for one parameter row.
MergeRow(rows, src, p) ==
    IF \E i \in 1..Len(rows) : rows[i][KeyCol(p)] = src[KeyCol(p)]
    THEN [i \in 1..Len(rows) |->
             IF rows[i][KeyCol(p)] = src[KeyCol(p)]
             THEN [c \in DOMAIN rows[i] |->
                      IF c \in UpdateCols(p) THEN src[c] ELSE rows[i][c]]
             ELSE rows[i]]
    ELSE Append(rows, src)

RECURSIVE ExecuteMany(_, _, _)
\* cursor.executemany(merge_query, data): the statement once per row, in order
ExecuteMany(rows, data, p) ==
    IF Len(data) = 0 THEN rows
    ELSE ExecuteMany(MergeRow(rows, Head(data), p), Tail(data), p)

\* conn.commit(): the transaction's work becomes the committed state
Commit(committed, working) == working

\* A handler that commits where it should roll back.
RollbackKeepsWork(committed, working) == working

\* conn.rollback(): the transaction's work is discarded
Rollback(committed, working) == committed

\* What can go wrong in one load: nothing, the table-creation statement
\* raises a pyodbc.Error, or executemany raises after some rows of the batch
\* were applied, either a pyodbc.Error ("merge") or an exception of another
\* class, such as a parameter it cannot bind ("merge_other").
LoadFailures == {"none", "create", "merge", "merge_other"}

\* The except clause of the loader: "except Exception" in Adzuna's and
\* Jooble's, "except pyodbc.Error" in RemoteOK's.
LoaderCatches(p, fail) == p # "remoteok" \/ fail # "merge_other"

\* The exception that leaves the loader, or "none".
LoaderExc(p, fail) == IF LoaderCatches(p, fail) THEN NoExc ELSE "TypeError"

\* conn.close() of main's finally on a connection with uncommitted work: the
\* work is discarded.
CloseUncommitted(committed, working) == committed

\* The try block the three loaders share: create, commit, merge, commit; an
\* exception the loader catches rolls back, one it does not catch leaves the
\* work uncommitted until main closes the connection.  The committed table
\* that results.
RunLoad(t, data, p, fail, k) ==
    IF fail = "create" THEN Rollback(t, t)
    ELSE LET created == Commit(t, CreateTableIfAbsent(t))
             partial == [created EXCEPT !.rows = ExecuteMany(@, SubSeq(data, 1, k), p)]
         IN IF fail = "none"
            THEN Commit(created, [created EXCEPT !.rows = ExecuteMany(@, data, p)])
            ELSE IF LoaderCatches(p, fail) THEN Rollback(created, partial)
            ELSE CloseUncommitted(created, partial)

\* load_adzuna_to_sql: unique_job_id is the digest of company-position-location
AdzunaUniqueJobId(row) == Str(Sha256Hex(KeyString(row)))

\* df['unique_job_id'] = df.apply(...): the column is added to the frame the
\* loader was given, which is the frame main holds.
AdzunaAssignKeys(rows) ==
    [i \in 1..Len(rows) |->
        [c \in DOMAIN rows[i] \cup {"unique_job_id"} |->
            IF c = "unique_job_id" THEN AdzunaUniqueJobId(rows[i]) ELSE rows[i][c]]]

\* df.where(pd.notnull(df), None).values.tolist() on the rows of a loader's
\* frame; the integer salary columns have no null cell.
WhereRows(rows) ==
    [i \in 1..Len(rows) |->
        [c \in DOMAIN rows[i] |->
            IF c \in {"salary_min", "salary_max"} THEN rows[i][c]
            ELSE WhereNotNull([k \in 1..Len(rows) |-> rows[k][c]], i)]]

\* data_to_load of load_adzuna_to_sql, from the frame with its key column
AdzunaDataToLoad(rows) == WhereRows(rows)

\* load_jooble_to_sql: the same digest
JoobleUniqueJobId(row) == Str(Sha256Hex(KeyString(row)))

\* df['unique_job_id'] = df.apply(...) of load_jooble_to_sql
JoobleAssignKeys(rows) ==
    [i \in 1..Len(rows) |->
        [c \in DOMAIN rows[i] \cup {"unique_job_id"} |->
            IF c = "unique_job_id" THEN JoobleUniqueJobId(rows[i]) ELSE rows[i][c]]]

\* data_to_load of load_jooble_to_sql, from the frame with its key column
JoobleDataToLoad(rows) == WhereRows(rows)

\* data_to_insert of load_data_to_sql: the rows of the frame as they are
RemoteOKDataToInsert(rows) == rows

\* get_config: None when the file is not there or does not parse (a
\* configparser.Error); the UnicodeDecodeError of a file that cannot be decoded
\* is not caught.
GetConfig(c) ==
    IF c = "undecodable" THEN [exc |-> "UnicodeDecodeError", val |-> "None"]
    ELSE IF c \in {"missing", "malformed"} THEN [exc |-> NoExc, val |-> "None"]
    ELSE [exc |-> NoExc, val |-> c]

\* The states of config.ini: complete, missing, not parseable, not decodable,
\* without a [database] section, without the provider's API section, or with
\* an API value that cannot be interpolated (a bare "%").
ConfigStates ==
    {"ok", "missing", "malformed", "undecodable", "no_database", "no_api",
     "bad_api_value"}

\* config[section][key] of the provider's API values, read in main's try
\* block: the exception it raises, or "none".
ApiKeyExc(c) ==
    IF c = "no_api" THEN "KeyError"
    ELSE IF c = "bad_api_value" THEN "InterpolationSyntaxError"
    ELSE NoExc

\* A main without the finally block: nothing is closed.
CloseNever(c) == c

\* "if conn: conn.close()" of main's finally
CloseIfOpen(c) == IF c = "open" THEN "closed" ELSE c

\* Jooble's main: "except KeyError" swallows a KeyError, others propagate
JoobleExcept(e) == IF e = "KeyError" THEN NoExc ELSE e

(***************************************************************************)
(* State.                                                                  *)
(***************************************************************************)
VARIABLES
    runs,      \* number of runs started
    prov,      \* the provider whose main() is running
    pc,        \* where main() stands
    config,    \* the state of config.ini this run found
    conn,      \* main's conn: "none", "open" or "closed"
    nOpened,   \* connections opened in this run
    nFetch,    \* network requests issued in this run
    steps,     \* the pipeline steps this run has taken, in order
    answer,    \* what the provider answered: "none", "error", "empty", "listings"
    nAnswered, \* number of listings in the answer
    df,        \* the frame main holds
    exc,       \* the exception propagating out of main, or "none"
    db,        \* the committed tables, per provider
    load       \* what the load step of this run did

vars == <<runs, prov, pc, config, conn, nOpened, nFetch, steps, answer, nAnswered,
          df, exc, db, load>>

\* status: what the loader did; before: the provider's committed table when
\* the loader was called; data: the rows handed to executemany; applied: the
\* rows the merge had applied when it failed.
NoLoad ==
    [status |-> "not_called", before |-> NoTable, data |-> <<>>, applied |-> 0]

Init ==
    /\ runs = 0
    /\ prov = "adzuna"
    /\ pc = "idle"
    /\ config = "unread"
    /\ conn = "none"
    /\ nOpened = 0
    /\ nFetch = 0
    /\ steps = <<>>
    /\ answer = "none"
    /\ nAnswered = 0
    /\ df = NoneDF
    /\ exc = NoExc
    /\ db = [p \in Providers |-> NoTable]
    /\ load = NoLoad

\* A fresh process runs one provider's script: "if __name__ == '__main__': main()".
\* RemoteOK's main starts with the fetch, the other two with get_config.
StartRun ==
    /\ pc \in {"idle", "done"}
    /\ runs < MaxRuns
    /\ runs' = runs + 1
    /\ \E p \in Providers :
          /\ prov' = p
          /\ pc' = IF p = "remoteok" THEN "fetch" ELSE "config"
    /\ config' = "unread"
    /\ conn' = "none"
    /\ nOpened' = 0
    /\ nFetch' = 0
    /\ steps' = <<>>
    /\ answer' = "none"
    /\ nAnswered' = 0
    /\ df' = NoneDF
    /\ exc' = NoExc
    /\ load' = NoLoad
    /\ UNCHANGED db

\* main: config = get_config(CONFIG_FILE); if not config: return.  The call
\* stands before main's try block: what get_config raises leaves main.
GetConfigStep(p) ==
    /\ prov = p
    /\ pc = "config"
    /\ \E c \in ConfigStates :
          /\ config' = c
          /\ exc' = GetConfig(c).exc
          /\ pc' = IF GetConfig(c).exc # NoExc \/ GetConfig(c).val = "None"
                   THEN "done"
                   ELSE "connect"
    /\ steps' = Append(steps, "LOAD_CONFIG")
    /\ UNCHANGED <<runs, prov, conn, nOpened, nFetch, answer, nAnswered, df, db, load>>

\* What pyodbc.connect does: it connects, raises a pyodbc.Error, or raises an
\* exception of another class.
ConnectOutcomes == {"connected", "pyodbc_error", "other_error"}

\* db_utils.get_db_connection: the connection, or None on any error
GetDbConnection(out) == IF out = "connected" THEN "open" ELSE "none"

\* The exception that leaves RemoteOK's own get_db_connection, whose except
\* clause names pyodbc.Error, configparser.Error and FileNotFoundError only.
RemoteOKConnectExc(out) == IF out = "other_error" THEN "Exception" ELSE NoExc

\* What main's except clauses make of an exception raised in its try block:
\* only Jooble's main has one.
Handler(p, e) == IF p = "jooble" THEN JoobleExcept(e) ELSE e

\* The provider's fetcher on a response.
Fetcher(p, r) ==
    IF p = "adzuna" THEN FetchAdzunaData(r)
    ELSE IF p = "jooble" THEN FetchJoobleData(r)
    ELSE FetchRemoteokData(r)

\* main: db_config = config['database']; conn = get_db_connection(db_config);
\* "if conn:" guards the rest of the try block.
ConnectStep(p) ==
    /\ prov = p
    /\ pc = "connect"
    /\ IF config = "no_database"
       THEN /\ exc' = Handler(p, "KeyError")
            /\ pc' = "finally"
            /\ UNCHANGED <<conn, nOpened, steps>>
       ELSE \E out \in ConnectOutcomes :
               /\ conn' = GetDbConnection(out)
               /\ nOpened' = IF out = "connected" THEN nOpened + 1 ELSE nOpened
               /\ steps' = Append(steps, "CONNECT_DB")
               /\ pc' = IF out = "connected" THEN "fetch" ELSE "finally"
               /\ exc' = exc
    /\ UNCHANGED <<runs, prov, config, nFetch, answer, nAnswered, df, db, load>>

\* The steps a fetcher takes on a response: the request, and the
\* normalization when the body has listings.
FetchSteps(r) ==
    IF AnswerOf(r) = "listings" THEN <<"FETCH", "NORMALIZE">> ELSE <<"FETCH">>

\* main: df = fetch_..._data(config[section][key]); the read of the key raises
\* KeyError when config.ini lacks the provider's section, and
\* InterpolationSyntaxError when the value cannot be interpolated.
FetchStep(p) ==
    /\ prov = p
    /\ pc = "fetch"
    /\ IF ApiKeyExc(config) # NoExc
       THEN /\ exc' = Handler(p, ApiKeyExc(config))
            /\ pc' = "finally"
            /\ UNCHANGED <<nFetch, steps, answer, nAnswered, df>>
       ELSE \E r \in Responses(p) :
               /\ nFetch' = nFetch + 1
               /\ steps' = steps \o FetchSteps(r)
               /\ answer' = AnswerOf(r)
               /\ nAnswered' = Len(r.jobs)
               /\ df' = Fetcher(p, r).df
               /\ exc' = Handler(p, Fetcher(p, r).exc)
               /\ pc' = IF Fetcher(p, r).exc # NoExc THEN "finally" ELSE "convert"
    /\ UNCHANGED <<runs, prov, config, conn, nOpened, db, load>>

\* main: df["date_posted"] = pd.to_datetime(df["date_posted"], errors="coerce");
\* the column read raises KeyError on the frame without columns.
ConvertDatesStep(p) ==
    /\ prov = p
    /\ pc = "convert"
    /\ IF df.kind # "frame"
       THEN /\ exc' = Handler(p, "KeyError")
            /\ pc' = "finally"
            /\ df' = df
       ELSE /\ df' = Frame([i \in 1..Len(df.rows) |->
                         [df.rows[i] EXCEPT !.date_posted = ToDatetime(@)]])
            /\ pc' = "load"
            /\ exc' = exc
    /\ UNCHANGED <<runs, prov, config, conn, nOpened, nFetch, steps, answer, nAnswered,
                   db, load>>

\* The frame after the loader's key assignment: Adzuna's and Jooble's loaders
\* add unique_job_id, RemoteOK's adds nothing.
AssignKeys(p, rows) ==
    IF p = "adzuna" THEN AdzunaAssignKeys(rows)
    ELSE IF p = "jooble" THEN JoobleAssignKeys(rows)
    ELSE rows

\* The data a loader sends to executemany for the rows of its frame.
DataToLoad(p, rows) ==
    IF p = "adzuna" THEN AdzunaDataToLoad(rows)
    ELSE IF p = "jooble" THEN JoobleDataToLoad(rows)
    ELSE RemoteOKDataToInsert(rows)

\* The steps a load takes, in the order of the loader's statements: the table
\* is created and committed (cursor.execute, conn.commit), then the keys are
\* assigned (not in RemoteOK, which has no such statement), then the merge is
\* executed.  A failed creation ends the load at its first step.
LoadSteps(p, fail) ==
    IF fail = "create" THEN <<"CREATE_TABLE">>
    ELSE IF p = "remoteok" THEN <<"CREATE_TABLE", "UPSERT">>
    ELSE <<"CREATE_TABLE", "ASSIGN_KEYS", "UPSERT">>

\* What a load did, for the record of the run.
LoadStatus(p, fail) ==
    IF fail = "none" THEN "ok"
    ELSE IF fail = "create" THEN "create_failed"
    ELSE IF LoaderCatches(p, fail) THEN "merge_failed"
    ELSE "merge_raised"

\* main: load_..._to_sql(df, conn), the whole call.  Adzuna's and Jooble's
\* loaders return at once on an empty frame.  Once the table is created the
\* key column is assigned into the frame main holds; an exception the loader
\* does not catch goes on to main's finally.
LoadStep(p) ==
    /\ prov = p
    /\ pc = "load"
    /\ IF p # "remoteok" /\ IsEmptyDF(df)
       THEN /\ load' = [load EXCEPT !.status = "skipped_empty"]
            /\ UNCHANGED <<db, steps, df, exc>>
       ELSE \E fail \in LoadFailures :
            \E k \in 0..(Len(df.rows) - 1) :
               LET keyed == AssignKeys(p, df.rows)
                   data == DataToLoad(p, keyed)
               IN /\ db' = [db EXCEPT ![p] = RunLoad(@, data, p, fail, k)]
                  /\ df' = IF fail = "create" THEN df ELSE Frame(keyed)
                  /\ exc' = LoaderExc(p, fail)
                  /\ load' = [status |-> LoadStatus(p, fail), before |-> db[p],
                               data |-> IF fail = "create" THEN <<>> ELSE data,
                               applied |-> IF fail \in {"merge", "merge_other"}
                                           THEN k ELSE 0]
                  /\ steps' = steps \o LoadSteps(p, fail)
    /\ pc' = "finally"
    /\ UNCHANGED <<runs, prov, config, conn, nOpened, nFetch, answer, nAnswered>>

\* main: finally: if conn: conn.close()
FinallyStep(p) ==
    /\ prov = p
    /\ pc = "finally"
    /\ conn' = CloseIfOpen(conn)
    /\ steps' = IF conn = "open" THEN Append(steps, "CLOSE_CONNECTION") ELSE steps
    /\ pc' = "done"
    /\ UNCHANGED <<runs, prov, config, nOpened, nFetch, answer, nAnswered, df, exc, db,
                   load>>

(***************************************************************************)
(* Adzuna.py and Jooble.py: main().                                        *)
(***************************************************************************)
AdzunaGetConfig == GetConfigStep("adzuna")
AdzunaConnect == ConnectStep("adzuna")
AdzunaFetch == FetchStep("adzuna")
AdzunaConvertDates == ConvertDatesStep("adzuna")
AdzunaLoad == LoadStep("adzuna")
AdzunaFinally == FinallyStep("adzuna")

JoobleGetConfig == GetConfigStep("jooble")
JoobleConnect == ConnectStep("jooble")
JoobleFetch == FetchStep("jooble")
JoobleConvertDates == ConvertDatesStep("jooble")
JoobleLoad == LoadStep("jooble")
JoobleFinally == FinallyStep("jooble")

(***************************************************************************)
(* RemoteOK.py: main().                                                    *)
(***************************************************************************)
\* main: jobs_df = fetch_remoteok_data(API_URL), outside any try block;
\* "if jobs_df is None or jobs_df.empty: return"
RemoteOKFetch ==
    /\ prov = "remoteok"
    /\ pc = "fetch"
    /\ \E r \in Responses("remoteok") :
          /\ nFetch' = nFetch + 1
          /\ steps' = steps \o FetchSteps(r)
          /\ answer' = AnswerOf(r)
          /\ nAnswered' = Len(r.jobs)
          /\ df' = FetchRemoteokData(r).df
          /\ exc' = FetchRemoteokData(r).exc
          /\ pc' = IF FetchRemoteokData(r).exc # NoExc \/ IsEmptyDF(FetchRemoteokData(r).df)
                   THEN "done"
                   ELSE "connect"
    /\ UNCHANGED <<runs, prov, config, conn, nOpened, db, load>>

\* RemoteOK.get_db_connection: config.read() of a missing file reads nothing
\* and config['database'] then raises KeyError, and a file that cannot be
\* decoded raises UnicodeDecodeError; the except clause (pyodbc.Error,
\* configparser.Error, FileNotFoundError) catches neither, nor an exception of
\* another class from pyodbc.connect.  A file that does not parse is caught
\* and gives None.
RemoteOKConnect ==
    /\ prov = "remoteok"
    /\ pc = "connect"
    /\ \E c \in ConfigStates \ {"no_api", "bad_api_value"} :
          /\ config' = c
          /\ IF c \in {"missing", "no_database"}
             THEN /\ exc' = "KeyError"
                  /\ steps' = Append(steps, "LOAD_CONFIG")
                  /\ UNCHANGED <<conn, nOpened>>
             ELSE IF c = "undecodable"
             THEN /\ exc' = "UnicodeDecodeError"
                  /\ steps' = Append(steps, "LOAD_CONFIG")
                  /\ UNCHANGED <<conn, nOpened>>
             ELSE IF c = "malformed"
             THEN /\ steps' = Append(steps, "LOAD_CONFIG")
                  /\ UNCHANGED <<conn, nOpened, exc>>
             ELSE \E out \in ConnectOutcomes :
                     /\ conn' = GetDbConnection(out)
                     /\ nOpened' = IF out = "connected" THEN nOpened + 1 ELSE nOpened
                     /\ steps' = steps \o <<"LOAD_CONFIG", "CONNECT_DB">>
                     /\ exc' = RemoteOKConnectExc(out)
          /\ pc' = IF conn' = "open" THEN "load" ELSE "finally"
    /\ UNCHANGED <<runs, prov, nFetch, answer, nAnswered, df, db, load>>

RemoteOKLoad == LoadStep("remoteok")
RemoteOKFinally == FinallyStep("remoteok")

Next ==
    \/ StartRun
    \/ AdzunaGetConfig
    \/ AdzunaConnect
    \/ AdzunaFetch
    \/ AdzunaConvertDates
    \/ AdzunaLoad
    \/ AdzunaFinally
    \/ JoobleGetConfig
    \/ JoobleConnect
    \/ JoobleFetch
    \/ JoobleConvertDates
    \/ JoobleLoad
    \/ JoobleFinally
    \/ RemoteOKFetch
    \/ RemoteOKConnect
    \/ RemoteOKLoad
    \/ RemoteOKFinally

Spec == Init /\ [][Next]_vars

(***************************************************************************)
(* Properties.                                                             *)
(***************************************************************************)
KeysOf(rows, p) == {rows[i][KeyCol(p)] : i \in 1..Len(rows)}

UniqueKeys(rows, p) ==
    \A i, j \in 1..Len(rows) : rows[i][KeyCol(p)] = rows[j][KeyCol(p)] => i = j

RowWithKey(rows, key, p) == rows[CHOOSE i \in 1..Len(rows) : rows[i][KeyCol(p)] = key]

\* The last row of the batch that carries the key.
LastWithKey(data, key, p) ==
    data[CHOOSE i \in 1..Len(data) :
            /\ data[i][KeyCol(p)] = key
            /\ \A j \in (i + 1)..Len(data) : data[j][KeyCol(p)] # key]

\* C1: after a successful load the provider's table has one row per key, its
\* keys are those it had plus those of the batch, and for every key of the
\* batch the stored row carries, in every column, the values of the last row
\* of the batch with that key.
UpsertSemantics ==
    load.status = "ok" =>
        /\ db[prov].exists
        /\ UniqueKeys(db[prov].rows, prov)
        /\ KeysOf(db[prov].rows, prov)
              = KeysOf(load.before.rows, prov) \cup KeysOf(load.data, prov)
        /\ \A key \in KeysOf(load.data, prov) :
              RowWithKey(db[prov].rows, key, prov) = LastWithKey(load.data, key, prov)

\* C1 witness: a successful load whose batch has two different rows with one
\* key, that key already being in the table with other values than it has now.
UpsertSemanticsWitness ==
    /\ load.status = "ok"
    /\ \E i, j \in 1..Len(load.data) :
          /\ i < j
          /\ load.data[i][KeyCol(prov)] = load.data[j][KeyCol(prov)]
          /\ load.data[i] # load.data[j]
          /\ load.data[i][KeyCol(prov)] \in KeysOf(load.before.rows, prov)
          /\ RowWithKey(load.before.rows, load.data[i][KeyCol(prov)], prov)
                # RowWithKey(db[prov].rows, load.data[i][KeyCol(prov)], prov)

\* The table already holds, for every key of the batch, the row a load of the
\* batch leaves there.
Reflects(t, data, p) ==
    /\ t.exists
    /\ \A key \in KeysOf(data, p) :
          /\ key \in KeysOf(t.rows, p)
          /\ RowWithKey(t.rows, key, p) = LastWithKey(data, key, p)

\* C2: a successful load of a dataset into a table that an earlier load of
\* the same dataset has produced leaves the table as it was, and the table a
\* successful load has produced is unchanged by loading the same dataset again.
UpsertIdempotent ==
    load.status = "ok" =>
        /\ Reflects(load.before, load.data, prov) => db[prov] = load.before
        /\ RunLoad(db[prov], load.data, prov, "none", 0) = db[prov]

\* C2 witness: the second run loaded a dataset into a non-empty table that
\* already reflected it, after a first run had loaded it.
UpsertIdempotentWitness ==
    /\ runs = 2
    /\ load.status = "ok"
    /\ Len(load.before.rows) > 0
    /\ Len(load.data) > 1
    /\ Reflects(load.before, load.data, prov)
    /\ db[prov] = load.before

\* C3 as claimed: after a failed load the provider's committed table, its
\* existence included, is what it was before the load.
NoPartialCommit ==
    load.status \in {"create_failed", "merge_failed", "merge_raised"}
        => db[prov] = load.before

\* C3 as amended: a failure of the table creation leaves the committed table
\* as it was; a failure of the merge leaves its rows as they were, and leaves
\* the table itself there, created and committed before the merge, even if it
\* did not exist before the load.
FailedLoadKeepsRows ==
    /\ load.status = "create_failed" => db[prov] = load.before
    /\ load.status \in {"merge_failed", "merge_raised"} =>
          /\ db[prov].rows = load.before.rows
          /\ db[prov].exists
          /\ load.before.exists => db[prov] = load.before

\* C3 witness: the merge failed after it had applied rows that changed the
\* table, and the committed rows are those from before the load.
FailedLoadKeepsRowsWitness ==
    /\ load.status = "merge_failed"
    /\ load.applied > 0
    /\ Len(load.before.rows) > 0
    /\ ExecuteMany(load.before.rows, SubSeq(load.data, 1, load.applied), prov)
          # load.before.rows
    /\ db[prov].rows = load.before.rows

\* C4: a run that has ended has no open connection, one it opened is closed,
\* and no run opens more than one.
ConnectionClosed ==
    /\ nOpened <= 1
    /\ pc = "done" => conn # "open"
    /\ pc = "done" /\ nOpened > 0 => conn = "closed"

\* C4 witness: a run ended by an uncaught exception, its connection closed.
ConnectionClosedWitness ==
    /\ pc = "done"
    /\ exc # NoExc
    /\ nOpened = 1
    /\ conn = "closed"

\* The order of steps the specification gives for a run.
PipelineOrder ==
    <<"LOAD_CONFIG", "CONNECT_DB", "FETCH", "NORMALIZE", "ASSIGN_KEYS", "UPSERT",
      "CLOSE_CONNECTION">>

\* The step of the specification a statement of the code belongs to: creating
\* the table is the first half of the table manager's UPSERT.
StageOf(s) == IF s = "CREATE_TABLE" THEN "UPSERT" ELSE s

RankIn(order, s) == CHOOSE i \in 1..Len(order) : order[i] = s

\* The steps taken so far follow the order: none is taken twice, and none is
\* taken after a step of a later stage.
InOrder(order) ==
    \A i, j \in 1..Len(steps) :
        i < j => /\ steps[i] # steps[j]
                 /\ RankIn(order, StageOf(steps[i])) <= RankIn(order, StageOf(steps[j]))

\* C5: every provider's run takes its steps in the pipeline order, none
\* revisited, and a request is issued only with the configuration loaded and
\* the connection opened.
RunOrdering ==
    /\ InOrder(PipelineOrder)
    /\ nFetch > 0 => config = "ok" /\ nOpened = 1

\* C6: a run whose fetch met a transport failure ends with no exception, an
\* empty result and the load skipped.
TransportFailureNotFatal ==
    pc = "done" /\ answer = "error" =>
        /\ exc = NoExc
        /\ IsEmptyDF(df)
        /\ load.status \in {"not_called", "skipped_empty"}

\* C7: a run whose provider answered with zero listings ends with no
\* exception and without any database write.
EmptyResponseNoWrite ==
    pc = "done" /\ answer = "empty" =>
        /\ exc = NoExc
        /\ load.status \in {"not_called", "skipped_empty"}

SameTriple(r1, r2) ==
    r1.company = r2.company /\ r1.position = r2.position /\ r1.location = r2.location

\* The key column of every row handed to the merge is the digest of the
\* normalized record's company-position-location string, so that rows with
\* one triple have one key.
KeyIsTripleDigest ==
    \A i \in 1..Len(load.data) :
        /\ load.data[i][KeyCol(prov)] = Str(Sha256Hex(KeyString(df.rows[i])))
        /\ \A j \in 1..Len(load.data) :
              SameTriple(df.rows[i], df.rows[j])
                  => load.data[i][KeyCol(prov)] = load.data[j][KeyCol(prov)]

\* C8: in every provider's load the merge key is the digest of the triple, so
\* that records with one triple have one key.
SurrogateKeyDerived == KeyIsTripleDigest

\* The largest value of the INT columns of JoobleJobs and RemoteOKJobs.
Int32Max == 2147483647

\* 0 <= v <= B; Adzuna's B, 2^63 - 1, is above every integer of the model.
SalaryWithinBound(v, p) == v >= 0 /\ (p # "adzuna" => v <= Int32Max)

\* C9: the salaries of every normalized record lie between 0 and the bound.
SalaryCleaned ==
    df.kind = "frame" =>
        \A i \in 1..Len(df.rows) :
            /\ SalaryWithinBound(df.rows[i].salary_min, prov)
            /\ SalaryWithinBound(df.rows[i].salary_max, prov)

\* C10: whatever fields the listings of a response lack, the normalizer
\* raises nothing and produces one record per listing.
FieldDegradation ==
    answer = "listings" =>
        /\ exc = NoExc
        /\ df.kind = "frame"
        /\ Len(df.rows) = nAnswered

\* C11: no step of any run, successful or failed, of any provider takes a key
\* out of a provider's table: the keys stored before the step are stored
\* after it, and a table that exists stays.
KeysNeverShrink ==
    [][\A p \in Providers :
          /\ KeysOf(db[p].rows, p) \subseteq KeysOf(db'[p].rows, p)
          /\ db[p].exists => db'[p].exists]_vars

\* C11 witness: a second run of a provider has loaded, with or without
\* success, into a table that held keys, and the table holds them still.
KeysNeverShrinkWitness ==
    /\ runs = 2
    /\ load.status \in {"ok", "merge_failed", "merge_raised", "create_failed"}
    /\ Len(load.before.rows) > 1
    /\ KeysOf(load.before.rows, prov) \subseteq KeysOf(db[prov].rows, prov)

\* C12: a step that changes a provider's table is the load of that provider's
\* own run; the other two tables are as before, every row the table held is
\* still in its place, and a row whose key is not in the incoming batch has
\* all its column values as before.
LoadFrame ==
    [][\A q \in Providers :
          db'[q] # db[q] =>
              /\ q = prov
              /\ pc = "load"
              /\ Len(db'[q].rows) >= Len(db[q].rows)
              /\ \A i \in 1..Len(db[q].rows) :
                     /\ db'[q].rows[i][KeyCol(q)] = db[q].rows[i][KeyCol(q)]
                     /\ db[q].rows[i][KeyCol(q)] \notin KeysOf(load'.data, q)
                            => db'[q].rows[i] = db[q].rows[i]]_vars

\* C12 witness: a successful load has changed a row whose key was in the batch
\* while the table held another row whose key was not in the batch.
LoadFrameWitness ==
    /\ load.status = "ok"
    /\ \E i, j \in 1..Len(load.before.rows) :
           /\ load.before.rows[i][KeyCol(prov)] \in KeysOf(load.data, prov)
           /\ db[prov].rows[i] # load.before.rows[i]
           /\ load.before.rows[j][KeyCol(prov)] \notin KeysOf(load.data, prov)
           /\ db[prov].rows[j] = load.before.rows[j]
====
